---- MODULE Spec2Model ----
(***************************************************************************)
(* Model of homework/src/hello_server: the key/value cache (cache.rs) and  *)
(* the thread pool (thread_pool.rs).  The two components share no state;   *)
(* SpecCache runs the cache alone and SpecPool runs the pool alone.        *)
(***************************************************************************)
EXTENDS Integers, Sequences, FiniteSets, TLC

(* ------------------------------ bounds -------------------------------- *)
NumThreads == 2
NumKeys == 2
MaxCalls == 3
MaxSize == 1
NumClients == 2
MaxJobs == 2

Threads == 1..NumThreads
Keys == 1..NumKeys
\* The values a producer can return: two distinguishable ones.
Vals == {"v1", "v2"}

Workers == 1..MaxSize
Clients == 1..NumClients

Nobody == 0
NoJob == 0
NoVal == "none"
NoKey == 0
NoToken == [present |-> FALSE, flag |-> FALSE]
\* Arc::new((Mutex::new(b), Condvar::new())) stored in the map
Token(b) == [present |-> TRUE, flag |-> b]

VARIABLES
  (* cache.rs *)
  inner,          \* Cache::inner, the value map of the cache instance
  cond_per_key,   \* contents of Cache::cond_per_key: per key, no token or the token's bool
  mapper_lock,    \* the Mutex around the cond_per_key map: owner and poison flag
  token_lock,     \* per key, the Mutex<bool> of the token: owner and poison flag
  pc,             \* per thread, its position in get_or_insert_with
  key,            \* per thread, the key argument of the call in progress
  inner_clone,    \* per thread, the local inner_clone
  res,            \* per thread, the local res
  ret,            \* per thread, the value returned by its last finished call
  calls,          \* number of calls started so far
  (* history of the cache *)
  f_calls,        \* per key, how many times a producer was invoked
  produced,       \* per key, the value returned by the first producer that returned
  f_panicked,     \* whether some producer panicked
  invoked,        \* per thread, whether the call in progress invoked its producer
  seen,           \* per thread, the values calls for its key had returned when it started
  returned,       \* per key, the values returned so far by finished calls
  (* thread_pool.rs *)
  pool,           \* lifecycle of the ThreadPool value
  size,           \* the argument of ThreadPool::new
  spawned,        \* how many workers ThreadPool::new has spawned and pushed
  joinable,       \* per worker, Worker::thread is Some
  wpc,            \* per worker, the position of its thread in the worker loop
  wjob,           \* per worker, the job it received and has not finished
  queue,          \* the jobs in the crossbeam channel, oldest first
  sender_open,    \* ThreadPool::job_sender is Some (the channel is connected)
  job_count,      \* ThreadPoolInner::job_count
  count_poisoned, \* the job_count mutex is poisoned
  cpc,            \* per client thread, its position in ThreadPool::join
  jobs,           \* per job submitted so far, whether its body panics
  drop_idx,       \* the worker the teardown is about to join
  (* history of the pool *)
  finished,       \* the jobs whose body has returned
  senders         \* the clients that have submitted a job

cacheVars == <<inner, cond_per_key, mapper_lock, token_lock, pc, key, inner_clone,
               res, ret, calls, f_calls, produced, f_panicked, invoked,
               seen, returned>>

poolVars == <<pool, size, spawned, joinable, wpc, wjob, queue, sender_open, job_count,
              count_poisoned, cpc, jobs, drop_idx, finished, senders>>

vars == <<cacheVars, poolVars>>

(* ------------------------------ cache.rs ------------------------------ *)

EmptyMap == [k \in Keys |-> NoVal]
FreeLock == [owner |-> Nobody, poisoned |-> FALSE]

\* Cache::default() (lines 16-23); no ThreadPool has been constructed yet.
Init ==
  /\ inner = EmptyMap
  /\ cond_per_key = [k \in Keys |-> NoToken]
  /\ mapper_lock = FreeLock
  /\ token_lock = [k \in Keys |-> FreeLock]
  /\ pc = [t \in Threads |-> "idle"]
  /\ key = [t \in Threads |-> NoKey]
  /\ inner_clone = [t \in Threads |-> EmptyMap]
  /\ res = [t \in Threads |-> NoVal]
  /\ ret = [t \in Threads |-> NoVal]
  /\ calls = 0
  /\ f_calls = [k \in Keys |-> 0]
  /\ produced = [k \in Keys |-> NoVal]
  /\ f_panicked = FALSE
  /\ invoked = [t \in Threads |-> FALSE]
  /\ seen = [t \in Threads |-> {}]
  /\ returned = [k \in Keys |-> {}]
  /\ pool = "unbuilt"
  /\ size = 0
  /\ spawned = 0
  /\ joinable = [w \in Workers |-> FALSE]
  /\ wpc = [w \in Workers |-> "unspawned"]
  /\ wjob = [w \in Workers |-> NoJob]
  /\ queue = <<>>
  /\ sender_open = FALSE
  /\ job_count = 0
  /\ count_poisoned = FALSE
  /\ cpc = [c \in Clients |-> "ready"]
  /\ jobs = <<>>
  /\ drop_idx = 0
  /\ finished = {}
  /\ senders = {}

\* A guard dropped while its thread unwinds poisons its mutex and frees it.
Unwound(l, t) == IF l.owner = t THEN [owner |-> Nobody, poisoned |-> TRUE] ELSE l
\* A guard dropped at the end of its scope frees its mutex.
Released(l, t) == IF l.owner = t THEN [l EXCEPT !.owner = Nobody] ELSE l

\* Thread t panics inside get_or_insert_with: its locals and guards are dropped.
Panic(t) ==
  /\ pc' = [pc EXCEPT ![t] = "panicked"]
  /\ mapper_lock' = Unwound(mapper_lock, t)
  /\ token_lock' = [k \in Keys |-> Unwound(token_lock[k], t)]
  /\ inner_clone' = [inner_clone EXCEPT ![t] = EmptyMap]
  /\ res' = [res EXCEPT ![t] = NoVal]

\* Thread t returns v from get_or_insert_with: its locals and guards are dropped.
Return(t, v) ==
  /\ pc' = [pc EXCEPT ![t] = "done"]
  /\ ret' = [ret EXCEPT ![t] = v]
  /\ returned' = [returned EXCEPT ![key[t]] = @ \cup {v}]
  /\ mapper_lock' = Released(mapper_lock, t)
  /\ token_lock' = [k \in Keys |-> Released(token_lock[k], t)]
  /\ inner_clone' = [inner_clone EXCEPT ![t] = EmptyMap]
  /\ res' = [res EXCEPT ![t] = NoVal]

\* Lines 41-50: the call clones self.inner and looks the key up in the clone.
Call(t, k) ==
  /\ pc[t] \in {"idle", "done"}
  /\ calls < MaxCalls
  /\ calls' = calls + 1
  /\ key' = [key EXCEPT ![t] = k]
  /\ invoked' = [invoked EXCEPT ![t] = FALSE]
  /\ seen' = [seen EXCEPT ![t] = returned[k]]
  /\ IF inner[k] # NoVal
       THEN \* Entry::Occupied
            /\ pc' = [pc EXCEPT ![t] = "done"]
            /\ ret' = [ret EXCEPT ![t] = inner[k]]
            /\ returned' = [returned EXCEPT ![k] = @ \cup {inner[k]}]
            /\ UNCHANGED inner_clone
       ELSE \* Entry::Vacant
            /\ pc' = [pc EXCEPT ![t] = "lock_mapper"]
            /\ inner_clone' = [inner_clone EXCEPT ![t] = inner]
            /\ UNCHANGED <<ret, returned>>
  /\ UNCHANGED <<inner, cond_per_key, mapper_lock, token_lock, res, f_calls, produced,
                 f_panicked>>
  /\ UNCHANGED poolVars

\* Line 53: self.cond_per_key.lock().unwrap()
LockMapper(t) ==
  /\ pc[t] = "lock_mapper"
  /\ mapper_lock.owner = Nobody
  /\ IF mapper_lock.poisoned
       THEN Panic(t)
       ELSE /\ mapper_lock' = [mapper_lock EXCEPT !.owner = t]
            /\ pc' = [pc EXCEPT ![t] = "check"]
            /\ UNCHANGED <<token_lock, inner_clone, res>>
  /\ UNCHANGED <<inner, cond_per_key, key, ret, calls, f_calls, produced,
                 f_panicked, invoked, seen, returned>>
  /\ UNCHANGED poolVars

\* Mutant of HasToken: a token whose flag is cleared counts as no token.
HasPendingToken(k) == cond_per_key[k].present /\ cond_per_key[k].flag

\* Line 54: whether the thread takes the waiter branch.
HasToken(k) == cond_per_key[k].present

\* Lines 54-57 (token found: lock its flag) and 65-68 (no token: insert one).
Check(t) ==
  /\ pc[t] = "check"
  /\ IF HasToken(key[t])
       THEN /\ token_lock[key[t]].owner = Nobody
            /\ IF token_lock[key[t]].poisoned
                 THEN Panic(t)
                 ELSE /\ token_lock' = [token_lock EXCEPT ![key[t]].owner = t]
                      /\ pc' = [pc EXCEPT ![t] = "wait_loop"]
                      /\ UNCHANGED <<mapper_lock, inner_clone, res>>
            /\ UNCHANGED cond_per_key
       ELSE /\ cond_per_key' = [cond_per_key EXCEPT ![key[t]] = Token(TRUE)]
            /\ pc' = [pc EXCEPT ![t] = "call_f"]
            /\ UNCHANGED <<mapper_lock, token_lock, inner_clone, res>>
  /\ UNCHANGED <<inner, key, ret, calls, f_calls, produced,
                 f_panicked, invoked, seen, returned>>
  /\ UNCHANGED poolVars

\* Lines 59-64: the wait loop and the read of the value from the local clone.
\* With the flag set, line 60 locks the flag mutex the thread already holds:
\* std leaves that unspecified (it never returns: deadlock or panic).
WaitLoop(t) ==
  /\ pc[t] = "wait_loop"
  /\ IF cond_per_key[key[t]].flag
       THEN /\ \/ /\ pc' = [pc EXCEPT ![t] = "deadlocked"]
                  /\ UNCHANGED <<mapper_lock, token_lock, inner_clone, res>>
               \/ Panic(t)
            /\ UNCHANGED <<ret, returned>>
       ELSE IF inner_clone[t][key[t]] = NoVal
              THEN \* inner_clone.get(&key).unwrap() on None
                   /\ Panic(t)
                   /\ UNCHANGED <<ret, returned>>
              ELSE Return(t, inner_clone[t][key[t]])
  /\ UNCHANGED <<inner, cond_per_key, key, calls, f_calls, produced,
                 f_panicked, invoked, seen>>
  /\ UNCHANGED poolVars

\* Line 71: f(key.clone()) is entered.
CallF(t) ==
  /\ pc[t] = "call_f"
  /\ pc' = [pc EXCEPT ![t] = "running"]
  /\ f_calls' = [f_calls EXCEPT ![key[t]] = @ + 1]
  /\ invoked' = [invoked EXCEPT ![t] = TRUE]
  /\ UNCHANGED <<inner, cond_per_key, mapper_lock, token_lock, key,
                 inner_clone, res, ret, calls, produced, f_panicked, seen, returned>>
  /\ UNCHANGED poolVars

\* Line 71: f returns its value v (p false) or panics (p true).
FinishF(t, v, p) ==
  /\ pc[t] = "running"
  /\ IF p
       THEN /\ Panic(t)
            /\ f_panicked' = TRUE
            /\ UNCHANGED produced
       ELSE /\ res' = [res EXCEPT ![t] = v]
            /\ pc' = [pc EXCEPT ![t] = "publish"]
            /\ produced' = [produced EXCEPT ![key[t]] = IF @ = NoVal THEN v ELSE @]
            /\ UNCHANGED <<mapper_lock, token_lock, inner_clone, f_panicked>>
  /\ UNCHANGED <<inner, cond_per_key, key, ret, calls, f_calls,
                 invoked, seen, returned>>
  /\ UNCHANGED poolVars

\* Line 72: inner_clone.insert(key, Arc::new(res.clone()))
Publish(t) ==
  /\ pc[t] = "publish"
  /\ inner_clone' = [inner_clone EXCEPT ![t][key[t]] = res[t]]
  /\ pc' = [pc EXCEPT ![t] = "resolve"]
  /\ UNCHANGED <<inner, cond_per_key, mapper_lock, token_lock, key, res,
                 ret, calls, f_calls, produced, f_panicked, invoked, seen, returned>>
  /\ UNCHANGED poolVars

\* Mutant of Resolved: the token is taken out of the map.
Removed(tok) == NoToken

\* Mutant of Resolved: the flag is left as it is.
Unresolved(tok) == tok

\* Line 77: *guarded_bool = false; the token stays in the map.
Resolved(tok) == [tok EXCEPT !.flag = FALSE]

\* Lines 75-78: lock the token's flag, clear it, notify_all (no thread ever
\* sleeps on the condition variable: Condvar::wait at line 60 is never entered,
\* its argument does not return).
Resolve(t) ==
  /\ pc[t] = "resolve"
  /\ token_lock[key[t]].owner = Nobody
  /\ IF token_lock[key[t]].poisoned
       THEN /\ Panic(t)
            /\ UNCHANGED cond_per_key
       ELSE /\ token_lock' = [token_lock EXCEPT ![key[t]].owner = t]
            /\ cond_per_key' = [cond_per_key EXCEPT ![key[t]] = Resolved(@)]
            /\ pc' = [pc EXCEPT ![t] = "return"]
            /\ UNCHANGED <<mapper_lock, inner_clone, res>>
  /\ UNCHANGED <<inner, key, ret, calls, f_calls, produced,
                 f_panicked, invoked, seen, returned>>
  /\ UNCHANGED poolVars

\* Lines 80-82: res is returned; guarded_bool and cond_mapper go out of scope.
ReturnRes(t) ==
  /\ pc[t] = "return"
  /\ Return(t, res[t])
  /\ UNCHANGED <<inner, cond_per_key, key, calls, f_calls, produced,
                 f_panicked, invoked, seen>>
  /\ UNCHANGED poolVars

CacheNext ==
  \/ \E t \in Threads, k \in Keys : Call(t, k)
  \/ \E t \in Threads : LockMapper(t)
  \/ \E t \in Threads : Check(t)
  \/ \E t \in Threads : WaitLoop(t)
  \/ \E t \in Threads : CallF(t)
  \/ \E t \in Threads, v \in Vals, p \in BOOLEAN : FinishF(t, v, p)
  \/ \E t \in Threads : Publish(t)
  \/ \E t \in Threads : Resolve(t)
  \/ \E t \in Threads : ReturnRes(t)

(* --------------------------- thread_pool.rs --------------------------- *)

\* usize::MAX, the value job_count wraps to below 0, cut down to the largest
\* integer the model checker represents
UsizeMax == 2147483647

\* Condvar::notify_one on empty_condvar: one of the threads asleep in
\* wait_empty, if there is any, is woken and goes back to the loop test.
Asleep == {c \in Clients : cpc[c] = "waiting"}
NotifyOne == IF Asleep = {} THEN {cpc} ELSE {[cpc EXCEPT ![c] = "wait_empty"] : c \in Asleep}

\* Mutant of SizeAccepted: the size is not checked.
SizeUnchecked(n) == TRUE

\* Line 80: assert!(size > 0)
SizeAccepted(n) == n > 0

\* Lines 79-90: ThreadPool::new(n) asserts n > 0, then creates the channel
\* and the shared ThreadPoolInner.
New(n) ==
  /\ pool = "unbuilt"
  /\ size' = n
  /\ IF SizeAccepted(n)
       THEN /\ pool' = "building"
            /\ sender_open' = TRUE
       ELSE /\ pool' = "failed"
            /\ UNCHANGED sender_open
  /\ UNCHANGED <<spawned, joinable, wpc, wjob, queue, job_count, count_poisoned, cpc,
                 jobs, drop_idx, finished, senders>>
  /\ UNCHANGED cacheVars

\* Lines 92-114: one turn of the loop that spawns a worker thread and pushes
\* its Worker.
Spawn ==
  /\ pool = "building"
  /\ spawned < size
  /\ spawned' = spawned + 1
  /\ wpc' = [wpc EXCEPT ![spawned + 1] = "recv"]
  /\ joinable' = [joinable EXCEPT ![spawned + 1] = TRUE]
  /\ UNCHANGED <<pool, size, wjob, queue, sender_open, job_count, count_poisoned, cpc,
                 jobs, drop_idx, finished, senders>>
  /\ UNCHANGED cacheVars

\* Lines 116-120: ThreadPool::new returns the pool.
Built ==
  /\ pool = "building"
  /\ spawned = size
  /\ pool' = "live"
  /\ UNCHANGED <<size, spawned, joinable, wpc, wjob, queue, sender_open, job_count,
                 count_poisoned, cpc, jobs, drop_idx, finished, senders>>
  /\ UNCHANGED cacheVars

\* Mutant of RecvFails: recv keeps waiting on a disconnected channel.
RecvNeverFails == FALSE

\* Mutant of RecvFails: recv fails as soon as the sender is gone.
RecvFailsEarly == ~sender_open

\* Lines 96, 104: recv fails when the channel is empty and disconnected.
RecvFails == queue = <<>> /\ ~sender_open

\* Lines 96-107: receiver.recv() returns a job, or fails once the channel is
\* disconnected and empty; it blocks while the channel is connected and empty.
Recv(w) ==
  /\ wpc[w] = "recv"
  /\ queue # <<>> \/ RecvFails
  /\ IF RecvFails
       THEN /\ wpc' = [wpc EXCEPT ![w] = "exited"]
            /\ UNCHANGED <<wjob, queue>>
       ELSE /\ wjob' = [wjob EXCEPT ![w] = Head(queue)]
            /\ queue' = Tail(queue)
            /\ wpc' = [wpc EXCEPT ![w] = "start_job"]
  /\ UNCHANGED <<pool, size, spawned, joinable, sender_open, job_count, count_poisoned,
                 cpc, jobs, drop_idx, finished, senders>>
  /\ UNCHANGED cacheVars

\* Mutant of CountAfterStart: start_job leaves the counter as it is.
CountKept == job_count

\* Line 42: *lock += 1
CountAfterStart == IF job_count = UsizeMax THEN 0 ELSE job_count + 1

\* Lines 40-44 called from line 100: start_job.
StartJob(w) ==
  /\ wpc[w] = "start_job"
  /\ IF count_poisoned
       THEN /\ wpc' = [wpc EXCEPT ![w] = "panicked"]
            /\ UNCHANGED <<job_count, cpc>>
       ELSE /\ job_count' = CountAfterStart
            /\ cpc' \in NotifyOne
            /\ wpc' = [wpc EXCEPT ![w] = "job"]
  /\ UNCHANGED <<pool, size, spawned, joinable, wjob, queue, sender_open, count_poisoned,
                 jobs, drop_idx, finished, senders>>
  /\ UNCHANGED cacheVars

\* Line 101: the job body returns, or panics and unwinds the worker thread.
RunJob(w) ==
  /\ wpc[w] = "job"
  /\ IF jobs[wjob[w]]
       THEN /\ wpc' = [wpc EXCEPT ![w] = "panicked"]
            /\ UNCHANGED finished
       ELSE /\ wpc' = [wpc EXCEPT ![w] = "finish_job"]
            /\ finished' = finished \cup {wjob[w]}
  /\ UNCHANGED <<pool, size, spawned, joinable, wjob, queue, sender_open, job_count,
                 count_poisoned, cpc, jobs, drop_idx, senders>>
  /\ UNCHANGED cacheVars

\* Lines 47-51 called from line 102: finish_job.  Subtracting from 0 panics
\* with overflow checks (poisoning the mutex) and wraps without them.
FinishJob(w) ==
  /\ wpc[w] = "finish_job"
  /\ IF count_poisoned
       THEN /\ wpc' = [wpc EXCEPT ![w] = "panicked"]
            /\ UNCHANGED <<job_count, count_poisoned, cpc, wjob>>
       ELSE IF job_count = 0
         THEN /\ \/ /\ wpc' = [wpc EXCEPT ![w] = "panicked"]
                    /\ count_poisoned' = TRUE
                    /\ UNCHANGED <<job_count, cpc, wjob>>
                 \/ /\ job_count' = UsizeMax
                    /\ cpc' \in NotifyOne
                    /\ wpc' = [wpc EXCEPT ![w] = "recv"]
                    /\ wjob' = [wjob EXCEPT ![w] = NoJob]
                    /\ UNCHANGED count_poisoned
         ELSE /\ job_count' = job_count - 1
              /\ cpc' \in NotifyOne
              /\ wpc' = [wpc EXCEPT ![w] = "recv"]
              /\ wjob' = [wjob EXCEPT ![w] = NoJob]
              /\ UNCHANGED count_poisoned
  /\ UNCHANGED <<pool, size, spawned, joinable, queue, sender_open, jobs, drop_idx,
                 finished, senders>>
  /\ UNCHANGED cacheVars

\* A client thread is between two calls on the pool.
Ready(c) == cpc[c] \in {"ready", "joined"}

\* Mutant of ChannelFull: the channel holds one job (bounded(1)).
ChannelFullAtOne == Len(queue) >= 1

\* Line 83: the channel is unbounded, a send never finds it full.
ChannelFull == FALSE

\* JoinHandle::join returns once the thread has ended.
Ended(w) == wpc[w] \in {"exited", "panicked"}

\* Lines 93, 95: each worker thread owns a clone of the receiver (the one of
\* new is dropped when new returns); a thread that ends drops its clone.
ReceiversGone == pool # "building" /\ \A w \in 1..spawned : Ended(w)

\* Mutant of SendFails: the send goes through on a closed channel.
SendNeverFails == FALSE

\* Lines 128, 131: as_ref().unwrap() fails on a dropped sender, and
\* send(job).unwrap() fails on a channel with no receiver left.
SendFails == ~sender_open \/ ReceiversGone

\* Lines 124-132: execute sends the boxed job on the unbounded channel; p says
\* whether the job body panics.
Execute(c, p) ==
  /\ pool = "live"
  /\ Ready(c)
  /\ Len(jobs) < MaxJobs
  /\ ~SendFails => ~ChannelFull
  /\ IF ~SendFails
       THEN /\ jobs' = Append(jobs, p)
            /\ senders' = senders \cup {c}
            /\ queue' = Append(queue, Len(jobs) + 1)
            /\ cpc' = [cpc EXCEPT ![c] = "ready"]
       ELSE \* the unwrap panics in the calling thread
            /\ cpc' = [cpc EXCEPT ![c] = "panicked"]
            /\ UNCHANGED <<jobs, queue, senders>>
  /\ UNCHANGED <<pool, size, spawned, joinable, wpc, wjob, sender_open, job_count,
                 count_poisoned, drop_idx, finished>>
  /\ UNCHANGED cacheVars

\* Lines 137-139: join calls wait_empty.
Join(c) ==
  /\ pool = "live"
  /\ Ready(c)
  /\ cpc' = [cpc EXCEPT ![c] = "wait_empty"]
  /\ UNCHANGED <<pool, size, spawned, joinable, wpc, wjob, queue, sender_open, job_count,
                 count_poisoned, jobs, drop_idx, finished, senders>>
  /\ UNCHANGED cacheVars

\* Lines 58-61: with the job_count lock held, wait_empty returns if the count
\* is 0 and otherwise sleeps on empty_condvar, giving the lock up.
WaitEmpty(c) ==
  /\ cpc[c] = "wait_empty"
  /\ cpc' = [cpc EXCEPT ![c] = IF count_poisoned THEN "panicked"
                                ELSE IF job_count = 0 THEN "joined" ELSE "waiting"]
  /\ UNCHANGED <<pool, size, spawned, joinable, wpc, wjob, queue, sender_open, job_count,
                 count_poisoned, jobs, drop_idx, finished, senders>>
  /\ UNCHANGED cacheVars

\* Line 60: Condvar::wait may wake without a notification.
SpuriousWake(c) ==
  /\ cpc[c] = "waiting"
  /\ cpc' = [cpc EXCEPT ![c] = "wait_empty"]
  /\ UNCHANGED <<pool, size, spawned, joinable, wpc, wjob, queue, sender_open, job_count,
                 count_poisoned, jobs, drop_idx, finished, senders>>
  /\ UNCHANGED cacheVars

\* Line 146: the pool is dropped (no call on it is in progress: drop takes
\* &mut self) and drops its sender, which disconnects the channel.
DropPool ==
  /\ pool = "live"
  /\ \A c \in Clients : Ready(c) \/ cpc[c] = "panicked"
  /\ pool' = "dropping"
  /\ sender_open' = FALSE
  /\ drop_idx' = 1
  /\ UNCHANGED <<size, spawned, joinable, wpc, wjob, queue, job_count, count_poisoned,
                 cpc, jobs, finished, senders>>
  /\ UNCHANGED cacheVars

\* Mutant of JoinPanics: the result of join is dropped unread.
JoinIgnored(w) == FALSE

\* Lines 25, 150: thread.join().unwrap() panics when the thread panicked.
JoinPanics(w) == wpc[w] = "panicked"

\* Lines 148-153: one turn of the loop of ThreadPool::drop: take the handle,
\* join the thread, unwrap the result; after the last turn drop returns.
DropJoin ==
  /\ pool = "dropping"
  /\ IF drop_idx > spawned
       THEN /\ pool' = "dropped"
            /\ UNCHANGED <<joinable, drop_idx>>
       ELSE IF ~joinable[drop_idx]
         THEN /\ drop_idx' = drop_idx + 1
              /\ UNCHANGED <<pool, joinable>>
         ELSE /\ Ended(drop_idx)
              /\ joinable' = [joinable EXCEPT ![drop_idx] = FALSE]
              /\ IF JoinPanics(drop_idx)
                   THEN /\ pool' = "unwinding"
                        /\ drop_idx' = 1
                   ELSE /\ drop_idx' = drop_idx + 1
                        /\ UNCHANGED pool
  /\ UNCHANGED <<size, spawned, wpc, wjob, queue, sender_open, job_count, count_poisoned,
                 cpc, jobs, finished, senders>>
  /\ UNCHANGED cacheVars

\* Lines 23-27: while the panic of ThreadPool::drop unwinds, the fields of the
\* pool are dropped, and Worker::drop joins each handle that is still Some; a
\* second panic during the unwinding aborts the process.
WorkerDrop ==
  /\ pool = "unwinding"
  /\ IF drop_idx > spawned
       THEN /\ pool' = "drop_panicked"
            /\ UNCHANGED <<joinable, drop_idx>>
       ELSE IF ~joinable[drop_idx]
         THEN /\ drop_idx' = drop_idx + 1
              /\ UNCHANGED <<pool, joinable>>
         ELSE /\ Ended(drop_idx)
              /\ joinable' = [joinable EXCEPT ![drop_idx] = FALSE]
              /\ IF JoinPanics(drop_idx)
                   THEN /\ pool' = "aborted"
                        /\ UNCHANGED drop_idx
                   ELSE /\ drop_idx' = drop_idx + 1
                        /\ UNCHANGED pool
  /\ UNCHANGED <<size, spawned, wpc, wjob, queue, sender_open, job_count, count_poisoned,
                 cpc, jobs, finished, senders>>
  /\ UNCHANGED cacheVars

PoolNext ==
  \/ \E n \in 0..MaxSize : New(n)
  \/ Spawn
  \/ Built
  \/ \E w \in Workers : Recv(w)
  \/ \E w \in Workers : StartJob(w)
  \/ \E w \in Workers : RunJob(w)
  \/ \E w \in Workers : FinishJob(w)
  \/ \E c \in Clients, p \in BOOLEAN : Execute(c, p)
  \/ \E c \in Clients : Join(c)
  \/ \E c \in Clients : WaitEmpty(c)
  \/ \E c \in Clients : SpuriousWake(c)
  \/ DropPool
  \/ DropJoin
  \/ WorkerDrop

(* ------------------------------- claims ------------------------------- *)

\* The call of thread t is over: it returned, panicked, or is stuck for good.
CallEnded(t) == pc[t] \in {"done", "panicked", "deadlocked"}

\* C1: for every key, the producers of all get_or_insert_with calls together
\* are invoked at most once.
C1_AtMostOnceProduction == \A k \in Keys : f_calls[k] <= 1

\* Two calls for one key are over and its producer ran once.
C1_Witness ==
  \E t1, t2 \in Threads :
    /\ t1 # t2
    /\ key[t1] = key[t2]
    /\ CallEnded(t1) /\ CallEnded(t2)
    /\ f_calls[key[t1]] = 1

\* C2: when no producer panics, a call that started before any call for its
\* key had returned and that did not run the producer returns normally, with
\* the value the single producer invocation made.
C2_CoalescingResult ==
  \A t \in Threads :
    (CallEnded(t) /\ ~invoked[t] /\ seen[t] = {} /\ ~f_panicked)
      => (pc[t] = "done" /\ ret[t] = produced[key[t]])

\* C3: while a producer runs, its thread holds neither the lock of the token
\* map nor the lock of a token.
C3_ProducerHoldsNoLock ==
  \A t \in Threads :
    pc[t] = "running"
      => (mapper_lock.owner # t /\ \A k \in Keys : token_lock[k].owner # t)

\* C4: when no producer panics, a call that started after a call for its key
\* had returned v returns v normally and does not invoke its producer.
C4_IdempotentReread ==
  \A t \in Threads :
    (CallEnded(t) /\ seen[t] # {} /\ ~f_panicked)
      => (pc[t] = "done" /\ ret[t] \in seen[t] /\ ~invoked[t])

\* C5: when join returns to the only thread that submitted jobs, none of them
\* panicking, every submitted job has finished.
C5_DrainCorrectness ==
  \A c \in Clients :
    (cpc[c] = "joined" /\ senders \subseteq {c} /\ \A j \in 1..Len(jobs) : ~jobs[j])
      => finished = 1..Len(jobs)

\* C6: the job counter is never negative, and it is 0 exactly when no job is
\* queued and no worker is executing a job.
C6_CounterInvariant ==
  /\ job_count >= 0
  /\ job_count = 0 <=> (queue = <<>> /\ \A w \in Workers : wpc[w] # "job")

\* C7: when the drop of the pool has returned normally, every submitted job
\* has finished, the queue is empty and every worker has left its loop; and a
\* worker leaves its loop only with the sender gone and the queue empty.
C7_TeardownDrains ==
  /\ pool = "dropped"
       => /\ finished = 1..Len(jobs)
          /\ queue = <<>>
          /\ \A w \in 1..spawned : wpc[w] = "exited"
  /\ \A w \in Workers : wpc[w] = "exited" => (~sender_open /\ queue = <<>>)

\* The drop of a pool that was given two jobs has returned.
C7_Witness == pool = "dropped" /\ spawned >= 1 /\ Len(jobs) >= 2

\* C8: once a worker has panicked, the drop of the pool does not return
\* normally: the loop of the drop does not get past that worker.
C8_PanicSurfaced ==
  /\ (\E w \in Workers : wpc[w] = "panicked") => pool # "dropped"
  /\ pool = "dropping" => \A w \in 1..(drop_idx - 1) : wpc[w] = "exited"

\* The drop of the pool has ended in a panic, a worker having panicked.
C8_Witness ==
  /\ pool \in {"drop_panicked", "aborted"}
  /\ \E w \in Workers : wpc[w] = "panicked"

\* C9: new(0) fails with no worker spawned and no channel created; otherwise
\* the pool has exactly size > 0 workers, and as long as no job was submitted
\* they all wait on the queue and the job counter is 0.
C9_ConstructionValidation ==
  /\ pool = "failed"
       => (size = 0 /\ spawned = 0 /\ ~sender_open
           /\ \A w \in Workers : wpc[w] = "unspawned")
  /\ pool \notin {"unbuilt", "failed"} => size > 0
  /\ pool \notin {"unbuilt", "failed", "building"} => spawned = size
  /\ \A w \in Workers : wpc[w] # "unspawned" <=> w <= spawned
  /\ (pool = "live" /\ jobs = <<>>)
       => (job_count = 0 /\ \A w \in 1..size : wpc[w] = "recv")

\* new(0) has failed.
C9_Witness == pool = "failed" /\ size = 0

\* What execute by client c does and leaves alone.
ExecuteEffect(c) ==
  /\ queue' = Append(queue, Len(jobs) + 1)
  /\ Ready(c)'
  /\ job_count' = job_count
  /\ wpc' = wpc
  /\ wjob' = wjob

SomeWorkerAlive == \E w \in 1..spawned : wpc[w] \notin {"exited", "panicked"}

ExecuteFatal(c) ==
  /\ cpc'[c] = "panicked"
  /\ queue' = queue
  /\ jobs' = jobs

\* C11: execute on a pool whose sender is dropped or whose receivers are all
\* gone panics in the calling thread, and the job is not put in the queue (so
\* no worker can run it).
C11_UseAfterCloseFatal ==
  \A c \in Clients, p \in BOOLEAN :
    (pool = "live" /\ Ready(c) /\ Len(jobs) < MaxJobs
       /\ (~sender_open \/ ~SomeWorkerAlive))
      => /\ ENABLED (Execute(c, p) /\ ExecuteFatal(c))
         /\ ~ENABLED (Execute(c, p) /\ ~ExecuteFatal(c))

\* A client has panicked in execute on a pool whose workers are all gone.
C11_Witness ==
  /\ \E c \in Clients : cpc[c] = "panicked"
  /\ ~SomeWorkerAlive
  /\ Len(jobs) < MaxJobs

\* C12: once the drop of a pool whose jobs all return has begun, under fair
\* scheduling of the worker threads and of the dropping thread every worker
\* leaves its loop and the drop returns.
C12_TeardownTerminates ==
  (pool = "dropping" /\ \A j \in 1..Len(jobs) : ~jobs[j])
    ~> (pool = "dropped" /\ \A w \in 1..spawned : wpc[w] = "exited")

\* The drop has begun while a job is still in the queue.
C12_Witness == pool = "dropping" /\ queue # <<>> /\ \A j \in 1..Len(jobs) : ~jobs[j]

\* The workers between start_job and finish_job: they have incremented the
\* job counter and not yet decremented it.
Counted == {w \in Workers : wpc[w] \in {"job", "finish_job"}}

\* C13: a worker whose job body has completed, by returning or by panicking,
\* has decremented the job counter: the counter counts only the workers
\* whose job is still in progress.
C13_RunningToIdleDecrements == job_count = Cardinality(Counted)

\* The worker states of the specification: Idle is a worker blocked in or
\* about to call recv, Running one that has dequeued a job and not yet
\* finished finish_job.
Idle(w) == wpc[w] = "recv"

Running(w) == wpc[w] \in {"start_job", "job", "finish_job"}

\* C14: every accepted job is in the queue once, or held by one worker, or
\* done; a Running worker holds the job it dequeued and has incremented the
\* counter before the body starts; and a worker thread ends only from Idle,
\* holding no job (the transitions are Idle->Running, Running->Idle and
\* Idle->Terminated).
C14_ExactlyOnceDelivery ==
  /\ \A j \in 1..Len(jobs) :
       LET queued == Cardinality({i \in DOMAIN queue : queue[i] = j})
           held == Cardinality({w \in Workers : wjob[w] = j})
       IN  /\ queued + held <= 1
           /\ queued + held = 0 => j \in finished
           /\ j \in finished => queued = 0
  /\ \A w \in Workers : Running(w) => wjob[w] \in 1..Len(jobs)
  /\ \A w \in Workers : wpc[w] \in {"job", "finish_job"} => job_count >= 1
  /\ \A w \in Workers : Idle(w) => wjob[w] = NoJob
  /\ \A w \in Workers : Ended(w) => wjob[w] = NoJob

\* C15: once the token of a key is marked complete, the value map of the
\* cache instance holds the value its producer returned; and a call on a key
\* for which a call has already returned a value takes the fast path: it
\* does not go on to the token-map lock.
C15_PublishedBeforeComplete ==
  /\ \A k \in Keys :
       (cond_per_key[k].present /\ ~cond_per_key[k].flag)
         => (inner[k] # NoVal /\ inner[k] = produced[k])
  /\ \A t \in Threads :
       seen[t] # {} => pc[t] \notin {"lock_mapper", "check", "wait_loop"}

\* Thread t is in the producer branch of a call, before the flag is cleared.
Producing(t) == pc[t] \in {"call_f", "running", "publish", "resolve"}

\* C16 as stated: a key has a token only while a call is producing its value.
C16_TokenOnlyWhileProducing ==
  \A k \in Keys :
    cond_per_key[k].present
      => \E t \in Threads : key[t] = k /\ (Producing(t) \/ pc[t] = "return")

\* C16, amended: the token of a key is in the map, unresolved, while a call
\* produces the key's value; it is never removed: a key whose producer was
\* invoked has a token, and after the producing call has returned the map
\* holds the token of its key with the flag cleared.
C16_TokenKeptResolved ==
  /\ \A t \in Threads : Producing(t) => cond_per_key[key[t]] = Token(TRUE)
  /\ \A k \in Keys : f_calls[k] > 0 => cond_per_key[k].present
  /\ \A k \in Keys : ~cond_per_key[k].present => cond_per_key[k] = NoToken
  /\ \A t \in Threads :
       (pc[t] = "done" /\ invoked[t]) => cond_per_key[key[t]] = Token(FALSE)

\* A producing call has returned and the token of its key is still there.
C16_Witness ==
  \E t \in Threads :
    pc[t] = "done" /\ invoked[t] /\ cond_per_key[key[t]] = Token(FALSE)

\* C17: when the producer of a key has panicked, the token of the key stays
\* unresolved and no other call on that key fails or returns.
C17_ProducerFailureHangs ==
  \A t0 \in Threads :
    (pc[t0] = "panicked" /\ invoked[t0])
      => /\ cond_per_key[key[t0]] = Token(TRUE)
         /\ \A t \in Threads \ {t0} :
              key[t] = key[t0] => pc[t] \notin {"panicked", "done"}

\* C18: when every submitted job has finished without panicking and every
\* worker is idle again, no caller of join is still asleep in wait_empty
\* (with waits that wake only when notified, a caller asleep in such a state
\* stays asleep unless more jobs are submitted).
C18_AllWaitersReturn ==
  (/\ pool = "live"
   /\ queue = <<>>
   /\ finished = 1..Len(jobs)
   /\ \A w \in 1..spawned : Idle(w))
    => Asleep = {}

\* C19: as long as no job has panicked, the job counter is the number of
\* workers between start_job and finish_job, and at most the number of
\* workers of the pool.
C19_CounterTracksRunning ==
  (\A w \in Workers : wpc[w] # "panicked")
    => /\ job_count = Cardinality(Counted)
       /\ job_count <= spawned
       /\ job_count <= size

\* A worker is running a job body, counted, and no job has panicked.
C19_Witness ==
  /\ \A w \in Workers : wpc[w] # "panicked"
  /\ \E w \in Workers : wpc[w] = "job"
  /\ job_count = Cardinality(Counted)
  /\ job_count >= 1

\* C20: while no producer has panicked, a thread that holds the token-map
\* lock and finds a token for its key finds the flag of the token false: no
\* thread is in the waiter branch with the flag set, and none is stuck on the
\* flag mutex it holds.
C20_NoCallerWaits ==
  ~f_panicked
    => \A t \in Threads :
         /\ (pc[t] = "check" /\ HasToken(key[t])) => ~cond_per_key[key[t]].flag
         /\ pc[t] = "wait_loop" => ~cond_per_key[key[t]].flag
         /\ pc[t] # "deadlocked"

\* A thread has found the token of its key, complete, and holds both locks.
C20_Witness ==
  /\ ~f_panicked
  /\ \E t \in Threads :
       /\ pc[t] = "wait_loop"
       /\ mapper_lock.owner = t
       /\ token_lock[key[t]].owner = t
       /\ cond_per_key[key[t]] = Token(FALSE)

(* --------------------------- specifications --------------------------- *)

\* The cache alone: the pool is never constructed.
SpecCache == Init /\ [][CacheNext]_vars

\* The pool alone: the cache is never called.
SpecPool == Init /\ [][PoolNext]_vars

\* The steps of the thread of worker w (lines 95-108).
\* The pool with condition-variable waits that wake only when notified.
NotifiedNext ==
  \/ \E n \in 0..MaxSize : New(n)
  \/ Spawn
  \/ Built
  \/ \E w \in Workers : Recv(w)
  \/ \E w \in Workers : StartJob(w)
  \/ \E w \in Workers : RunJob(w)
  \/ \E w \in Workers : FinishJob(w)
  \/ \E c \in Clients, p \in BOOLEAN : Execute(c, p)
  \/ \E c \in Clients : Join(c)
  \/ \E c \in Clients : WaitEmpty(c)
  \/ DropPool
  \/ DropJoin
  \/ WorkerDrop

SpecPoolNotified == Init /\ [][NotifiedNext]_vars

WorkerStep(w) == Recv(w) \/ StartJob(w) \/ RunJob(w) \/ FinishJob(w)

\* The pool under a fair scheduler: a thread that can take a step of the
\* worker loop or of the drop eventually takes it.  Nothing obliges a client
\* to call execute, join or drop.
FairSpecPool ==
  /\ SpecPool
  /\ \A w \in Workers : WF_vars(WorkerStep(w))
  /\ WF_vars(DropJoin)
  /\ WF_vars(WorkerDrop)

====
